---- MODULE Spec2Model ----
(***************************************************************************)
(* The live voice-assistant session of CulinaryQ: the LiveAssistant        *)
(* component (components/LiveAssistant.tsx, src/unnamed/part_002 lines     *)
(* 178-309) and the audio helpers of services/geminiService.ts             *)
(* (src/unnamed/part_000).                                                 *)
(*                                                                         *)
(* Time is counted in ticks of the output device; one tick is the playing  *)
(* time of one decoded frame, so a buffer of n frames lasts n ticks        *)
(* (buffer.duration = frameCount / sampleRate).                            *)
(*                                                                         *)
(* onmessage is an async function: it runs synchronously up to             *)
(* `await decodeAudioData(...)` (line 220) and the rest of the body is a   *)
(* continuation, a microtask.  Microtasks run in the order in which they   *)
(* were queued and before the event loop takes its next task, so no click, *)
(* render, device or connection event comes between the two halves.  What  *)
(* can come between them is what does not wait for the event loop: the     *)
(* caller of the callback (the transport library, which is not part of the *)
(* component) may deliver further messages before it returns to the event  *)
(* loop, and the output clock, which belongs to the audio rendering        *)
(* thread, may advance.                                                    *)
(***************************************************************************)
EXTENDS Integers, Sequences, FiniteSets, TLC

\* ---------------------------------------------------------------- bounds
MaxStarts == 1      \* clicks on the start button
MaxMsgs   == 3      \* inbound messages over all sessions
MaxFrags  == 0      \* transcript fragments carried by those messages
MaxInts   == 1      \* messages that carry the interrupted flag
MaxFrames == 1      \* capture frames produced by the script processor
MaxTime   == 2      \* last tick of the clock
MaxBytes  == 4      \* longest inbound audio payload, in bytes
MaxSamples  == 3    \* longest frame of samples given to encodeAudio
MaxRawBytes == 3    \* longest byte sequence given to the text encoding alone
MaxChannels == 2    \* largest numChannels given to decodeAudioData
SessionsStarts  == 2 \* clicks on the start button of the two-session runs
SessionsMsgs    == 2 \* inbound messages of the two-session runs
SessionsTime    == 1 \* last tick of the clock of the two-session runs
TranscriptMsgs  == 3 \* inbound messages of the transcript runs
TranscriptFrags == 6 \* transcript fragments of the transcript runs
TranscriptAudio == 1 \* messages with audio of the transcript runs
SampleDen   == 32000 \* a sample is a multiple of 1 / SampleDen

\* ------------------------------------------------------- program constants
TranscriptKeep == 4 \* prev.slice(-4)
NumChannels    == 1 \* decodeAudioData(..., ctx, 24000, 1)
BytesPerSample == 2 \* Int16Array
SampleScale    == 32768 \* data[i] * 32768 and dataInt16[...] / 32768.0

VARIABLES
    apiKey,            \* process.env.API_KEY is set
    isActive,          \* useState(false)
    rendered,          \* the isActive value of the last committed render
    transcript,        \* useState<string[]>([])
    sessionRef,        \* useRef(null): 0 is null, else the run that owns the session
    audioContextRef,   \* useRef(null): 0 is null, else the run that made outputCtx
    nextStartTimeRef,  \* useRef(0)
    sourcesRef,        \* useRef(new Set()): handles of buffer sources
    runs,              \* one record per call of startAssistant
    time,              \* wall clock, in ticks
    inflight,          \* onmessage calls suspended at `await decodeAudioData`
    handles,           \* the source nodes started whose onended has not run
    lastStart,         \* the latest call of source.start
    prevStart,         \* the call of source.start before it
    msgCount,          \* inbound messages delivered so far (a message's serial)
    fragCount,         \* transcript fragments delivered so far
    interrupts,        \* times the interrupted branch has run
    lastInt,           \* serial of the last message whose interrupted branch ran
    intSinceChunk,     \* the interrupted branch ran since the last audio arrival
    stalls,            \* audio arrivals that found the cursor behind the clock
    cleanCursor,       \* the cursor had no undecodable chunk ever arrived
    badSeen,           \* an undecodable chunk has arrived
    left,              \* what the environment may still deliver
    codec              \* the audio helpers at work on one input

vars == <<apiKey, isActive, rendered, transcript, sessionRef, audioContextRef,
          nextStartTimeRef, sourcesRef, runs, time, inflight, handles,
          lastStart, prevStart, msgCount, fragCount, interrupts, lastInt,
          intSinceChunk, stalls, cleanCursor, badSeen, left, codec>>

\* --------------------------------------------------------------- helpers
Max(a, b) == IF a >= b THEN a ELSE b

Runs == 1..Len(runs)

\* ctx.currentTime of the output context made by run c: each AudioContext
\* counts from its own creation.
CurrentTime(c) == time - runs[c].origin

\* A slice that keeps everything.
SliceLast_All(s, n) == s

\* prev.slice(-4)
SliceLast(s, n) ==
    IF Len(s) <= n THEN s ELSE SubSeq(s, Len(s) - n + 1, Len(s))

\* decodeAudioData, lines 193-195: new Int16Array(data.buffer) throws on a
\* byte length that is not a multiple of 2; frameCount = length / numChannels;
\* createBuffer takes the integer part and throws on a length of 0.
\* The result is the frame count, or -1 when the call throws.
DecodeFrameCount(byteLen, numChannels) ==
    IF byteLen % BytesPerSample # 0 THEN -1
    ELSE LET frames == (byteLen \div BytesPerSample) \div numChannels
         IN  IF frames = 0 THEN -1 ELSE frames

\* ------------------------------------------------------------ initial state
\* No call of source.start yet.
NoStart ==
    [id |-> 0, when |-> 0, dur |-> 0, at |-> 0, arrived |-> 0, fresh |-> FALSE,
     epoch |-> 0, stalled |-> 0, clean |-> 0, afterBad |-> FALSE]

\* The audio helpers at rest.
NoCodec ==
    [stage |-> "idle", kind |-> "none", samples |-> <<>>, nc |-> 1,
     bytes |-> <<>>, sent |-> <<>>, text |-> <<>>, frames |-> 0, data |-> <<>>]

\* The component as mounted (lines 183-188), with nothing delivered yet.
Mounted(budget) ==
    /\ apiKey \in BOOLEAN
    /\ isActive = FALSE
    /\ rendered = FALSE
    /\ transcript = <<>>
    /\ sessionRef = 0
    /\ audioContextRef = 0
    /\ nextStartTimeRef = 0
    /\ sourcesRef = {}
    /\ runs = <<>>
    /\ time = 0
    /\ inflight = <<>>
    /\ handles = <<>>
    /\ lastStart = NoStart
    /\ prevStart = [id |-> 0, when |-> 0, dur |-> 0, epoch |-> 0, stalled |-> 0]
    /\ msgCount = 0
    /\ fragCount = 0
    /\ interrupts = 0
    /\ lastInt = 0
    /\ intSinceChunk = FALSE
    /\ stalls = 0
    /\ cleanCursor = 0
    /\ badSeen = FALSE
    /\ left = budget

InitWith(budget) ==
    /\ Mounted(budget)
    /\ codec = NoCodec

Init ==
    InitWith([starts |-> MaxStarts, msgs |-> MaxMsgs, audio |-> MaxMsgs,
              frags |-> MaxFrags, ints |-> MaxInts, frames |-> MaxFrames,
              ticks |-> MaxTime])

\* ------------------------------------------------------------- environment
\* The event loop may take a new task: no continuation of onmessage is queued.
TaskBoundary == inflight = <<>>

\* The rendering thread advances the clock of every context.
Tick ==
    /\ audioContextRef # 0
    /\ left.ticks > 0
    /\ time' = time + 1
    /\ left' = [left EXCEPT !.ticks = @ - 1]
    /\ UNCHANGED <<apiKey, isActive, rendered, transcript, sessionRef,
                   audioContextRef, nextStartTimeRef, sourcesRef, runs,
                   inflight, handles, lastStart, prevStart, msgCount,
                   fragCount, interrupts, lastInt, intSinceChunk, stalls,
                   cleanCursor, badSeen, codec>>

\* React commits a render: the button shown follows isActive (lines 272, 296).
Render ==
    /\ TaskBoundary
    /\ rendered # isActive
    /\ rendered' = isActive
    /\ UNCHANGED <<apiKey, isActive, transcript, sessionRef, audioContextRef,
                   nextStartTimeRef, sourcesRef, runs, time, inflight,
                   handles, lastStart, prevStart, msgCount, fragCount,
                   interrupts, lastInt, intSinceChunk, stalls, cleanCursor,
                   badSeen, left, codec>>

\* ---------------------------------------------------------- startAssistant
\* The lifecycle state of the session of one call of startAssistant, from its
\* record r: the call has failed or its connection has ended (Closed), the
\* call has stored the session and shown it as active (Active), or it is
\* still on its way there (Connecting).  A session that does not exist yet is
\* Idle.
SessionState(r) ==
    IF r.pc = "failed" \/ r.conn \in {"closing", "closed", "failed"}
      THEN "Closed"
      ELSE IF r.pc = "done" THEN "Active" ELSE "Connecting"

\* connects counts the calls of ai.live.connect, erred tells that onerror has
\* run, heard that a message with audio has come on the connection, sequel
\* that the call was made when every earlier session was over, queued, sent
\* and sentClosed count capture frames.
NewRun(pc) ==
    [pc |-> pc, conn |-> "none", stream |-> FALSE, capture |-> FALSE,
     origin |-> time, connects |-> 0, erred |-> FALSE, heard |-> FALSE,
     sequel |-> (runs # <<>> /\ \A j \in Runs : SessionState(runs[j]) = "Closed"),
     queued |-> 0, sent |-> 0, sentClosed |-> 0]

\* A getAI that hands out a client without a key.
GetAIThrows_Never(key) == FALSE

\* services/geminiService.ts, getAI: `if (!process.env.API_KEY) throw ...`.
GetAIThrows(key) == ~key

\* Lines 190-197: the click on the start button, up to the await of
\* getUserMedia.  getAI throws when API_KEY is unset and the catch ends the call.
StartAssistant ==
    /\ TaskBoundary
    /\ rendered = FALSE
    /\ left.starts > 0
    /\ left' = [left EXCEPT !.starts = @ - 1]
    /\ IF ~GetAIThrows(apiKey)
         THEN /\ runs' = Append(runs, NewRun("media"))
              /\ audioContextRef' = Len(runs) + 1
         ELSE /\ runs' = Append(runs, NewRun("failed"))
              /\ UNCHANGED audioContextRef
    /\ UNCHANGED <<apiKey, isActive, rendered, transcript, sessionRef,
                   nextStartTimeRef, sourcesRef, time, inflight, handles,
                   lastStart, prevStart, msgCount, fragCount, interrupts,
                   lastInt, intSinceChunk, stalls, cleanCursor, badSeen, codec>>

\* Lines 197-253: getUserMedia resolves and ai.live.connect is called.
MediaGranted(i) ==
    /\ TaskBoundary
    /\ runs[i].pc = "media"
    /\ runs' = [runs EXCEPT ![i].pc = "connect", ![i].stream = TRUE,
                            ![i].conn = "connecting", ![i].connects = @ + 1]
    /\ UNCHANGED <<apiKey, isActive, rendered, transcript, sessionRef,
                   audioContextRef, nextStartTimeRef, sourcesRef, time,
                   inflight, handles, lastStart, prevStart, msgCount,
                   fragCount, interrupts, lastInt, intSinceChunk, stalls,
                   cleanCursor, badSeen, left, codec>>

\* A start that goes on to ai.live.connect although getUserMedia rejected.
MediaDenied_Connect(i) ==
    /\ TaskBoundary
    /\ runs[i].pc = "media"
    /\ runs' = [runs EXCEPT ![i].pc = "connect", ![i].conn = "connecting",
                            ![i].connects = @ + 1]
    /\ UNCHANGED <<apiKey, isActive, rendered, transcript, sessionRef,
                   audioContextRef, nextStartTimeRef, sourcesRef, time,
                   inflight, handles, lastStart, prevStart, msgCount,
                   fragCount, interrupts, lastInt, intSinceChunk, stalls,
                   cleanCursor, badSeen, left, codec>>

\* Lines 197, 257-259: getUserMedia rejects; the catch logs and returns.
MediaDenied(i) ==
    /\ TaskBoundary
    /\ runs[i].pc = "media"
    /\ runs' = [runs EXCEPT ![i].pc = "failed"]
    /\ UNCHANGED <<apiKey, isActive, rendered, transcript, sessionRef,
                   audioContextRef, nextStartTimeRef, sourcesRef, time,
                   inflight, handles, lastStart, prevStart, msgCount,
                   fragCount, interrupts, lastInt, intSinceChunk, stalls,
                   cleanCursor, badSeen, left, codec>>

\* Lines 202-214: onopen attaches the capture pipeline.
OnOpen(i) ==
    /\ TaskBoundary
    /\ runs[i].conn = "connecting"
    /\ runs' = [runs EXCEPT ![i].conn = "open", ![i].capture = TRUE]
    /\ UNCHANGED <<apiKey, isActive, rendered, transcript, sessionRef,
                   audioContextRef, nextStartTimeRef, sourcesRef, time,
                   inflight, handles, lastStart, prevStart, msgCount,
                   fragCount, interrupts, lastInt, intSinceChunk, stalls,
                   cleanCursor, badSeen, left, codec>>

\* Lines 255, 257-259: the connection attempt fails, sessionPromise rejects
\* and the catch logs and returns; the frames queued on the promise are lost.
ConnectRejected(i) ==
    /\ TaskBoundary
    /\ runs[i].pc = "connect"
    /\ runs[i].conn = "connecting"
    /\ runs' = [runs EXCEPT ![i].pc = "failed", ![i].conn = "failed"]
    /\ UNCHANGED <<apiKey, isActive, rendered, transcript, sessionRef,
                   audioContextRef, nextStartTimeRef, sourcesRef, time,
                   inflight, handles, lastStart, prevStart, msgCount,
                   fragCount, interrupts, lastInt, intSinceChunk, stalls,
                   cleanCursor, badSeen, left, codec>>

\* Lines 255-256 and 208-210: sessionPromise resolves after the open.  Its
\* reactions run in the order they were registered: first the rest of
\* startAssistant, then the sends queued by the capture callback.
ConnectResolved(i) ==
    /\ TaskBoundary
    /\ runs[i].pc = "connect"
    /\ runs[i].conn \in {"open", "closed"}
    /\ sessionRef' = i
    /\ isActive' = TRUE
    /\ runs' = [runs EXCEPT
                  ![i].pc = "done",
                  ![i].queued = 0,
                  ![i].sent = @ + runs[i].queued,
                  ![i].sentClosed =
                      IF runs[i].conn = "open" THEN @ ELSE @ + runs[i].queued]
    /\ UNCHANGED <<apiKey, rendered, transcript, audioContextRef,
                   nextStartTimeRef, sourcesRef, time, inflight, handles,
                   lastStart, prevStart, msgCount, fragCount, interrupts,
                   lastInt, intSinceChunk, stalls, cleanCursor, badSeen, left,
                   codec>>

\* Line 243: onerror logs and changes nothing in the component; the record
\* of the run remembers that the transport has reported an error.
OnError(i) ==
    /\ TaskBoundary
    /\ runs[i].conn = "open"
    /\ runs' = [runs EXCEPT ![i].erred = TRUE]
    /\ UNCHANGED <<apiKey, isActive, rendered, transcript, sessionRef,
                   audioContextRef, nextStartTimeRef, sourcesRef, time,
                   inflight, handles, lastStart, prevStart, msgCount,
                   fragCount, interrupts, lastInt, intSinceChunk, stalls,
                   cleanCursor, badSeen, left, codec>>

\* An onclose that connects again.
OnClose_Reconnect(i) ==
    /\ TaskBoundary
    /\ runs[i].conn \in {"open", "closing"}
    /\ runs' = [runs EXCEPT ![i].conn = "connecting", ![i].connects = @ + 1]
    /\ isActive' = FALSE
    /\ UNCHANGED <<apiKey, rendered, transcript, sessionRef, audioContextRef,
                   nextStartTimeRef, sourcesRef, time, inflight, handles,
                   lastStart, prevStart, msgCount, fragCount, interrupts,
                   lastInt, intSinceChunk, stalls, cleanCursor, badSeen, left,
                   codec>>

\* Line 244: onclose, after a close by the remote end or by session.close().
OnClose(i) ==
    /\ TaskBoundary
    /\ runs[i].conn \in {"open", "closing"}
    /\ runs' = [runs EXCEPT ![i].conn = "closed"]
    /\ isActive' = FALSE
    /\ UNCHANGED <<apiKey, rendered, transcript, sessionRef, audioContextRef,
                   nextStartTimeRef, sourcesRef, time, inflight, handles,
                   lastStart, prevStart, msgCount, fragCount, interrupts,
                   lastInt, intSinceChunk, stalls, cleanCursor, badSeen, left,
                   codec>>

\* Lines 262-268 with the reference left in place.
StopOnce_KeepRef(ref, rs) ==
    [sessionRef |-> ref, isActive |-> FALSE, runs |-> rs,
     closed |-> IF ref # 0 THEN {ref} ELSE {}]

\* Lines 262-268 as a function of sessionRef.current and the sessions: what
\* one call of stopAssistant leaves, closed being the sessions on which it
\* called close().
StopOnce(ref, rs) ==
    [sessionRef |-> 0,
     isActive |-> FALSE,
     runs |-> IF ref # 0
                THEN [rs EXCEPT ![ref].conn = IF @ = "open" THEN "closing" ELSE @]
                ELSE rs,
     closed |-> IF ref # 0 THEN {ref} ELSE {}]

\* Lines 262-268: the click on the close button.
StopAssistant ==
    /\ TaskBoundary
    /\ rendered = TRUE
    /\ LET s == StopOnce(sessionRef, runs)
       IN  /\ runs' = s.runs
           /\ sessionRef' = s.sessionRef
           /\ isActive' = s.isActive
    /\ UNCHANGED <<apiKey, rendered, transcript, audioContextRef,
                   nextStartTimeRef, sourcesRef, time, inflight, handles,
                   lastStart, prevStart, msgCount, fragCount, interrupts,
                   lastInt, intSinceChunk, stalls, cleanCursor, badSeen, left,
                   codec>>

\* The capture callback running from the moment the stream is there.
ProcessorAttached_WithStream(i) == runs[i].stream

\* Lines 203-205, 212-213: the script processor of run i exists and has its
\* onaudioprocess callback, which is so from onopen on.
ProcessorAttached(i) == runs[i].capture

\* Lines 205-211: onaudioprocess encodes the frame and sends it through
\* sessionPromise.then; nothing detaches the callback once it is attached.
\* The send waits while the promise is pending and never happens once it is
\* rejected.
OnAudioProcess(i) ==
    /\ TaskBoundary
    /\ ProcessorAttached(i)
    /\ left.frames > 0
    /\ left' = [left EXCEPT !.frames = @ - 1]
    /\ runs' = [runs EXCEPT
                  ![i].queued = IF runs[i].pc = "connect" THEN @ + 1 ELSE @,
                  ![i].sent = IF runs[i].pc = "done" THEN @ + 1 ELSE @,
                  ![i].sentClosed =
                      IF runs[i].pc = "done" /\ runs[i].conn # "open"
                        THEN @ + 1 ELSE @]
    /\ UNCHANGED <<apiKey, isActive, rendered, transcript, sessionRef,
                   audioContextRef, nextStartTimeRef, sourcesRef, time,
                   inflight, handles, lastStart, prevStart, msgCount,
                   fragCount, interrupts, lastInt, intSinceChunk, stalls,
                   cleanCursor, badSeen, codec>>

\* ----------------------------------------------------------------- onmessage
\* Line 219: nextStartTimeRef.current = Math.max(nextStartTimeRef.current,
\* ctx.currentTime)
RaiseCursor_IgnoreCursor(cursor, now) == now

RaiseCursor(cursor, now) == Max(cursor, now)

\* Line 226: nextStartTimeRef.current += buffer.duration
AdvanceCursor_Stay(cursor, duration) == cursor

AdvanceCursor(cursor, duration) == cursor + duration

\* Line 224: sourcesRef.current.delete(source)
DeleteSource_Keep(set, h) == set

DeleteSource(set, h) == set \ {h}

\* An inbound message: bytes is the length of the decoded inlineData payload
\* (0 when the message carries no audio), out and inp are the output and input
\* transcriptions, int is the interrupted flag.
Messages ==
    { m \in [bytes : 0..MaxBytes, out : BOOLEAN, inp : BOOLEAN, int : BOOLEAN] :
        m.bytes > 0 \/ m.out \/ m.inp \/ m.int }

FragsOf(m) == (IF m.out THEN 1 ELSE 0) + (IF m.inp THEN 1 ELSE 0)

\* Lines 230-235: the two setTranscript calls.  The text of a fragment is
\* represented by its ordinal among the fragments delivered, n being the
\* number delivered before this message.
TranscriptAfter(t, m, n) ==
    LET t1 == IF m.out
                THEN Append(SliceLast(t, TranscriptKeep), <<"Genie", n + 1>>)
                ELSE t
        k  == IF m.out THEN n + 1 ELSE n
    IN  IF m.inp
          THEN Append(SliceLast(t1, TranscriptKeep), <<"You", k + 1>>)
          ELSE t1

StopAll_Skip(hs, set) == hs

\* Line 238: sourcesRef.current.forEach(s => s.stop())
StopAll(hs, set) ==
    [h \in DOMAIN hs |-> IF h \in set THEN [hs[h] EXCEPT !.stopped = TRUE]
                                      ELSE hs[h]]

ClearSources_Keep(set) == set

\* Line 239: sourcesRef.current.clear()
ClearSources(set) == {}

\* Lines 230-241: the part of onmessage after the audio branch, run on the
\* handles hs, the pending set and the cursor cur that the audio branch left
\* (clean is what the audio branch left of the cursor kept clear of
\* undecodable chunks).
AfterAudio(m, id, hs, set, cur, clean) ==
    /\ transcript' = TranscriptAfter(transcript, m, fragCount)
    /\ fragCount' = fragCount + FragsOf(m)
    /\ IF m.int
         THEN /\ handles' = StopAll(hs, set)
              /\ sourcesRef' = ClearSources(set)
              /\ nextStartTimeRef' = 0
              /\ cleanCursor' = 0
              /\ interrupts' = interrupts + 1
              /\ lastInt' = id
              /\ intSinceChunk' = TRUE
         ELSE /\ handles' = hs
              /\ sourcesRef' = set
              /\ nextStartTimeRef' = cur
              /\ cleanCursor' = clean
              /\ UNCHANGED <<interrupts, lastInt, intSinceChunk>>

\* Lines 215-220 for a message with audio, and the whole of lines 215-242
\* for one without: the transport delivers message m on the open connection
\* of run i.  With audio, the cursor is raised to the clock of the current
\* output context, decodeAudioData runs (it has no await of its own, so it has
\* returned or thrown when its promise is handed back) and the call suspends
\* at the await with the outcome in frames.
OnMessage(i, m) ==
    /\ runs[i].conn = "open"
    /\ left.msgs > 0
    /\ m.bytes > 0 => left.audio > 0
    /\ FragsOf(m) <= left.frags
    /\ m.int => left.ints > 0
    /\ left' = [left EXCEPT !.msgs = @ - 1, !.frags = @ - FragsOf(m),
                            !.audio = IF m.bytes > 0 THEN @ - 1 ELSE @,
                            !.ints = IF m.int THEN @ - 1 ELSE @]
    /\ msgCount' = msgCount + 1
    /\ IF m.bytes > 0
         THEN LET now == CurrentTime(audioContextRef)
                  frames == DecodeFrameCount(m.bytes, NumChannels)
              IN  /\ nextStartTimeRef' = RaiseCursor(nextStartTimeRef, now)
                  /\ inflight' = Append(inflight,
                        [id |-> msgCount + 1, ctx |-> audioContextRef,
                         frames |-> frames,
                         out |-> m.out, inp |-> m.inp, int |-> m.int,
                         arrived |-> now, fresh |-> intSinceChunk,
                         afterBad |-> badSeen])
                  /\ runs' = [runs EXCEPT ![i].heard = TRUE]
                  /\ cleanCursor' = IF frames < 0
                                      THEN cleanCursor
                                      ELSE RaiseCursor(cleanCursor, now)
                  /\ badSeen' = (badSeen \/ frames < 0)
                  /\ stalls' = IF now > nextStartTimeRef THEN stalls + 1 ELSE stalls
                  /\ intSinceChunk' = FALSE
                  /\ UNCHANGED <<transcript, fragCount, sourcesRef, handles,
                                 interrupts, lastInt>>
         ELSE /\ AfterAudio(m, msgCount + 1, handles, sourcesRef,
                            nextStartTimeRef, cleanCursor)
              /\ UNCHANGED <<inflight, stalls, badSeen, runs>>
    /\ UNCHANGED <<apiKey, isActive, rendered, sessionRef, audioContextRef,
                   time, lastStart, prevStart, codec>>

\* The source node made for suspended call c when source.start(when) is called.
NewHandle(c, when, frames) ==
    [ctx |-> c.ctx, when |-> when, dur |-> frames,
     at |-> CurrentTime(c.ctx),       \* ctx.currentTime at the call of start
     stopped |-> FALSE]               \* stop() was called

\* What is remembered of that call of source.start.
StartRecord(c, when, frames) ==
    [id |-> c.id, when |-> when, dur |-> frames,
     at |-> CurrentTime(c.ctx),       \* ctx.currentTime at the call of start
     arrived |-> c.arrived,           \* ctx.currentTime when the message came
     fresh |-> c.fresh,               \* first audio after an interruption
     epoch |-> interrupts,            \* interruptions handled before the start
     stalled |-> stalls,              \* late arrivals seen before the start
     clean |-> cleanCursor,           \* the start time had no bad chunk come
     afterBad |-> c.afterBad]         \* arrived after an undecodable chunk

\* Lines 220-242 after the await, for the oldest suspended call.  A decode
\* that threw rejects the call and the rest of the body is skipped.
ResumeOnMessage ==
    /\ inflight # <<>>
    /\ LET c == Head(inflight)
           frames == c.frames
       IN  /\ inflight' = Tail(inflight)
           /\ IF frames < 0
                THEN UNCHANGED <<transcript, fragCount, sourcesRef,
                                 nextStartTimeRef, cleanCursor, handles,
                                 lastStart, prevStart, interrupts, lastInt,
                                 intSinceChunk>>
                ELSE /\ lastStart' = StartRecord(c, nextStartTimeRef, frames)
                     /\ prevStart' = [id |-> lastStart.id, when |-> lastStart.when,
                                      dur |-> lastStart.dur,
                                      epoch |-> lastStart.epoch,
                                      stalled |-> lastStart.stalled]
                     /\ AfterAudio(c, c.id,
                            handles @@ (c.id :> NewHandle(c, nextStartTimeRef, frames)),
                            sourcesRef \cup {c.id},
                            AdvanceCursor(nextStartTimeRef, frames),
                            AdvanceCursor(cleanCursor, frames))
    /\ UNCHANGED <<apiKey, isActive, rendered, sessionRef, audioContextRef,
                   runs, time, msgCount, stalls, badSeen, left, codec>>

\* When the buffer of handle h starts to sound, and when it has played out.
Begin(h) == Max(handles[h].when, handles[h].at)
Finished(h) == CurrentTime(handles[h].ctx) >= Begin(h) + handles[h].dur

\* Line 224: onended, fired once the buffer has played out or was stopped;
\* the node is garbage afterwards.
OnEnded(h) ==
    /\ TaskBoundary
    /\ handles[h].stopped \/ Finished(h)
    /\ handles' = [k \in DOMAIN handles \ {h} |-> handles[k]]
    /\ sourcesRef' = DeleteSource(sourcesRef, h)
    /\ UNCHANGED <<apiKey, isActive, rendered, transcript, sessionRef,
                   audioContextRef, nextStartTimeRef, runs, time, inflight,
                   lastStart, prevStart, msgCount, fragCount, interrupts,
                   lastInt, intSinceChunk, stalls, cleanCursor, badSeen, left,
                   codec>>

\* --------------------------------------------------------------- the system
Next ==
    \/ Tick
    \/ Render
    \/ StartAssistant
    \/ \E i \in Runs : MediaGranted(i)
    \/ \E i \in Runs : MediaDenied(i)
    \/ \E i \in Runs : OnOpen(i)
    \/ \E i \in Runs : ConnectRejected(i)
    \/ \E i \in Runs : ConnectResolved(i)
    \/ \E i \in Runs : OnError(i)
    \/ \E i \in Runs : OnClose(i)
    \/ StopAssistant
    \/ \E i \in Runs : OnAudioProcess(i)
    \/ \E i \in Runs : \E m \in Messages : OnMessage(i, m)
    \/ ResumeOnMessage
    \/ \E h \in DOMAIN handles : OnEnded(h)

Spec == Init /\ [][Next]_vars

\* The same component receiving transcript fragments, with fewer of its
\* messages carrying audio.
TranscriptInit ==
    InitWith([starts |-> MaxStarts, msgs |-> TranscriptMsgs,
              audio |-> TranscriptAudio, frags |-> TranscriptFrags,
              ints |-> MaxInts, frames |-> MaxFrames, ticks |-> MaxTime])

TranscriptSpec == TranscriptInit /\ [][Next]_vars

\* The same component with the start button clicked twice.
SessionsInit ==
    InitWith([starts |-> SessionsStarts, msgs |-> SessionsMsgs,
              audio |-> SessionsMsgs, frags |-> MaxFrags, ints |-> 0,
              frames |-> MaxFrames, ticks |-> SessionsTime])

SessionsSpec == SessionsInit /\ [][Next]_vars

\* ------------------------------------------------------- the audio helpers
\* services/geminiService.ts: encodeAudio, decodeBase64 and decodeAudioData,
\* taken through one input at a time.  A sample is the rational number
\* n / SampleDen and is represented by n; a decoded sample is the rational
\* number v / SampleScale and is represented by v.  A base64 text is the
\* sequence of the values 0..63 of its characters, with Pad for "=".
Pad      == 64
ByteMod  == 256     \* Uint8Array element
Int16Mod == 65536   \* Int16Array element

componentVars ==
    <<apiKey, isActive, rendered, transcript, sessionRef, audioContextRef,
      nextStartTimeRef, sourcesRef, runs, time, inflight, handles, lastStart,
      prevStart, msgCount, fragCount, interrupts, lastInt, intSinceChunk,
      stalls, cleanCursor, badSeen, left>>

\* ToIntegerOrInfinity: the fraction is dropped, toward zero.
TruncToZero(num, den) ==
    IF num >= 0 THEN num \div den ELSE -((-num) \div den)

\* ToInt16: modulo 2^16, read back as a signed value.
ToInt16(x) ==
    LET m == x % Int16Mod
    IN  IF m >= Int16Mod \div 2 THEN m - Int16Mod ELSE m

\* An encoder that saturates at the ends of the 16-bit range.
EncodeSample_Clip(n) ==
    LET t == TruncToZero(n * SampleScale, SampleDen)
    IN  IF t > Int16Mod \div 2 - 1 THEN Int16Mod \div 2 - 1
        ELSE IF t < -(Int16Mod \div 2) THEN -(Int16Mod \div 2)
        ELSE t

\* Line 211: int16[i] = data[i] * 32768
EncodeSample(n) == ToInt16(TruncToZero(n * SampleScale, SampleDen))

\* Line 213: new Uint8Array(int16.buffer), the two bytes of one element, low
\* byte first (the byte order of every platform the component runs on).
Int16Bytes(v) ==
    LET u == v % Int16Mod
    IN  <<u % ByteMod, u \div ByteMod>>

\* Lines 209-213: the bytes of the Int16Array made from the samples.
RECURSIVE PcmBytes(_)
PcmBytes(samples) ==
    IF samples = <<>> THEN <<>>
    ELSE Int16Bytes(EncodeSample(Head(samples))) \o PcmBytes(Tail(samples))

\* Lines 214-217: binary += String.fromCharCode(bytes[i]), one code unit per
\* byte.
BinaryString(bytes) == [i \in 1..Len(bytes) |-> bytes[i] % Int16Mod]

\* A btoa that drops the last, incomplete group of bytes.
RECURSIVE Btoa_NoTail(_)
Btoa_NoTail(b) ==
    IF Len(b) < 3 THEN <<>>
    ELSE <<b[1] \div 4, (b[1] % 4) * 16 + b[2] \div 16,
           (b[2] % 16) * 4 + b[3] \div 64, b[3] % 64>>
         \o Btoa_NoTail(SubSeq(b, 4, Len(b)))

\* Line 218: btoa(binary), three code units to four characters, the last
\* group padded.
RECURSIVE Btoa(_)
Btoa(b) ==
    IF Len(b) = 0 THEN <<>>
    ELSE IF Len(b) = 1
      THEN <<b[1] \div 4, (b[1] % 4) * 16, Pad, Pad>>
    ELSE IF Len(b) = 2
      THEN <<b[1] \div 4, (b[1] % 4) * 16 + b[2] \div 16, (b[2] % 16) * 4, Pad>>
    ELSE <<b[1] \div 4, (b[1] % 4) * 16 + b[2] \div 16,
           (b[2] % 16) * 4 + b[3] \div 64, b[3] % 64>>
         \o Btoa(SubSeq(b, 4, Len(b)))

\* Line 225: atob(base64), four characters to three code units, fewer for a
\* padded group.
RECURSIVE Atob(_)
Atob(t) ==
    IF Len(t) = 0 THEN <<>>
    ELSE LET c1 == t[1] * 4 + t[2] \div 16
             c2 == (t[2] % 16) * 16 + t[3] \div 4
             c3 == (t[3] % 4) * 64 + t[4]
             group == IF t[3] = Pad THEN <<c1>>
                      ELSE IF t[4] = Pad THEN <<c1, c2>>
                      ELSE <<c1, c2, c3>>
         IN  group \o Atob(SubSeq(t, 5, Len(t)))

\* Lines 224-231: decodeBase64, each code unit stored into a Uint8Array.
DecodeBase64(text) ==
    LET binaryString == Atob(text)
    IN  [i \in 1..Len(binaryString) |-> binaryString[i] % ByteMod]

\* A 16-bit element read without its sign.
Int16At_Unsigned(bytes, k) ==
    bytes[2 * k - 1] + ByteMod * bytes[2 * k]

\* Line 193: element k (from 1) of new Int16Array(data.buffer).
Int16At(bytes, k) ==
    ToInt16(bytes[2 * k - 1] + ByteMod * bytes[2 * k])

\* Lines 196-201: the channel data of the buffer of the given length; the
\* writes of the loop beyond that length are ignored.
ChannelData(bytes, numChannels, frames) ==
    [ch \in 1..numChannels |->
        [i \in 1..frames |-> Int16At(bytes, (i - 1) * numChannels + ch)]]

\* The inputs.
Samples ==
    {-2 * SampleDen, -((3 * SampleDen) \div 2), -SampleDen, 1 - SampleDen,
     -(SampleDen \div 2) - 1, -1, 0, 1, SampleDen \div 2 + 1, SampleDen - 1,
     SampleDen, (3 * SampleDen) \div 2}

ByteValues == {0, 1, 127, 128, 255}

SeqsUpTo(S, n) == UNION {[1..k -> S] : k \in 0..n}

\* Nothing is mounted or delivered; the helpers are given a frame of samples
\* to encode, or a byte sequence to put into text.
CodecInit ==
    /\ Mounted([starts |-> 0, msgs |-> 0, audio |-> 0, frags |-> 0,
                ints |-> 0, frames |-> 0, ticks |-> 0])
    /\ apiKey = FALSE
    /\ \E nc \in 1..MaxChannels :
          \/ \E f \in SeqsUpTo(Samples, MaxSamples) :
                codec = [NoCodec EXCEPT !.stage = "frame", !.kind = "frame",
                                        !.samples = f, !.nc = nc]
          \/ \E b \in SeqsUpTo(ByteValues, MaxRawBytes) :
                codec = [NoCodec EXCEPT !.stage = "pcm", !.kind = "raw",
                                        !.bytes = b, !.nc = nc]

\* encodeAudio, lines 209-213.
EncodePcm ==
    /\ codec.stage = "frame"
    /\ codec' = [codec EXCEPT !.stage = "pcm", !.bytes = PcmBytes(codec.samples)]
    /\ UNCHANGED componentVars

\* encodeAudio, lines 214-218.
EncodeText ==
    /\ codec.stage = "pcm"
    /\ codec' = [codec EXCEPT !.stage = "text", !.sent = codec.bytes,
                              !.bytes = <<>>,
                              !.text = Btoa(BinaryString(codec.bytes))]
    /\ UNCHANGED componentVars

\* decodeBase64, lines 224-231.
DecodeText ==
    /\ codec.stage = "text"
    /\ codec' = [codec EXCEPT !.stage = "bytes", !.bytes = DecodeBase64(codec.text)]
    /\ UNCHANGED componentVars

\* decodeAudioData, lines 187-203, with numChannels = codec.nc.
DecodePcm ==
    /\ codec.stage = "bytes"
    /\ LET frames == DecodeFrameCount(Len(codec.bytes), codec.nc)
       IN  codec' = IF frames < 0
                      THEN [codec EXCEPT !.stage = "failed", !.frames = frames]
                      ELSE [codec EXCEPT !.stage = "decoded", !.frames = frames,
                                         !.data = ChannelData(codec.bytes,
                                                              codec.nc, frames)]
    /\ UNCHANGED componentVars

CodecNext ==
    \/ EncodePcm
    \/ EncodeText
    \/ DecodeText
    \/ DecodePcm

CodecSpec == CodecInit /\ [][CodecNext]_vars

\* ---------------------------------------------------------------- properties
\* The buffer of handle h can still be heard, now or later.
Audible(h) == ~handles[h].stopped /\ ~Finished(h)

\* Two calls of source.start with no run of the interrupted branch between them.
SameEpoch == prevStart.id # 0 /\ lastStart.epoch = prevStart.epoch

\* C1: of two chunks started one after the other with no interruption handled
\* between the two starts, the later start belongs to the chunk that arrived
\* later, and its start time is at least the earlier start time plus the
\* earlier chunk's duration.
C1_NoOverlap ==
    SameEpoch =>
        /\ lastStart.id > prevStart.id
        /\ lastStart.when >= prevStart.when + prevStart.dur

\* A chunk that came late was started after a gap behind its predecessor.
C1_Witness ==
    /\ SameEpoch
    /\ lastStart.when > prevStart.when + prevStart.dur

\* C2: while no chunk arrives to find the cursor behind the output clock (and
\* no interruption is handled), a chunk starts exactly where its predecessor
\* ends, and the cursor stands at the latest start time plus its duration.
C2_Gapless ==
    /\ (SameEpoch /\ lastStart.stalled = prevStart.stalled)
          => lastStart.when = prevStart.when + prevStart.dur
    /\ (lastStart.id # 0 /\ interrupts = lastStart.epoch /\ stalls = lastStart.stalled)
          => nextStartTimeRef = lastStart.when + lastStart.dur

\* Three chunks of one tick each arrive at time 0: they are scheduled at 0, 1
\* and 2 and leave the cursor at 3.
C2_Witness ==
    /\ time = 0
    /\ stalls = 0
    /\ Cardinality(DOMAIN handles) = 3
    /\ {handles[h].when : h \in DOMAIN handles} = {0, 1, 2}
    /\ \A h \in DOMAIN handles : handles[h].dur = 1
    /\ nextStartTimeRef = 3

\* C3: the start time passed to source.start is never earlier than the output
\* clock at the moment of the call.
C3_NeverInThePast ==
    lastStart.id # 0 => lastStart.when >= lastStart.at

\* C4: a run of the interrupted branch leaves the pending set empty and has
\* called stop() on every handle that was in it, the one of its own message
\* included.
C4_InterruptClears ==
    [][interrupts' # interrupts =>
          /\ sourcesRef' = {}
          /\ \A h \in DOMAIN handles' :
                (h \in sourcesRef \/ h \notin DOMAIN handles) => handles'[h].stopped]_vars

\* An interruption has stopped a buffer that was pending.
C4_Witness ==
    /\ interrupts > 0
    /\ sourcesRef = {}
    /\ \E h \in DOMAIN handles : handles[h].stopped

\* C5: once the interrupted branch has run for a message, no buffer of a chunk
\* that arrived before that message can still be heard.
C5_BargeIn ==
    \A h \in DOMAIN handles : h < lastInt => ~Audible(h)

\* C6: the interrupted branch never runs while a call of onmessage is
\* suspended between raising the cursor and starting its source.
C6_Atomic ==
    [][interrupts' # interrupts => inflight' = <<>>]_vars

\* C7: the first audio chunk to arrive after an interruption is started at the
\* output time of its own arrival.
C7_StartsAtArrival ==
    (lastStart.id # 0 /\ lastStart.fresh) => lastStart.when = lastStart.arrived

C9_PendingAreLive ==
    sourcesRef = {h \in DOMAIN handles : ~handles[h].stopped}

\* After an interruption and a later chunk: one node stopped and awaiting its
\* onended, another one pending.
C9_Witness ==
    /\ sourcesRef # {}
    /\ \E h \in DOMAIN handles : handles[h].stopped

\* C10: no capture frame is submitted to the transport once the connection of
\* its session has left the open state.
C10_NoSendAfterClose ==
    \A i \in Runs : runs[i].sentClosed = 0

\* The close button was clicked on the session in sessionRef and no later call
\* of startAssistant has stored a session since.
Stopped ==
    /\ sessionRef = 0
    /\ \E i \in Runs : runs[i].pc = "done" /\ runs[i].conn \in {"closing", "closed"}

\* C11: once stopAssistant has closed the session, and until a later start
\* stores a new one, the pending set is empty and no buffer is playing or
\* scheduled to play.
C11_StopSilences ==
    Stopped =>
        /\ sourcesRef = {}
        /\ \A h \in DOMAIN handles : ~Audible(h)

\* The session of run i is connecting or active.
Live(i) == runs[i].conn \in {"connecting", "open"}

\* C12: the microphone stream and the capture processor of a run are held only
\* while its session is connecting or active.
C12_CaptureReleased ==
    \A i \in Runs : (runs[i].stream \/ runs[i].capture) => Live(i)

\* C13: wherever the close button can be clicked, a second call of
\* stopAssistant right after the first closes no session and leaves the
\* session reference, the active flag and the sessions as the first call left
\* them (the scheduler and the transcript are touched by neither call).
C13_StopIdempotent ==
    rendered = TRUE =>
        LET s1 == StopOnce(sessionRef, runs)
            s2 == StopOnce(s1.sessionRef, s1.runs)
        IN  /\ s2.closed = {}
            /\ s2.sessionRef = s1.sessionRef
            /\ s2.isActive = s1.isActive
            /\ s2.runs = s1.runs

\* The close button was clicked on an open session and is still shown: a
\* second click is possible.
C13_Witness ==
    /\ TaskBoundary
    /\ rendered = TRUE
    /\ sessionRef = 0
    /\ ~isActive
    /\ \E i \in Runs : runs[i].pc = "done" /\ runs[i].conn = "closing"

\* C14: a session changes state only from Connecting to Active and from Active
\* to Closed (or from Connecting to Closed when its start fails or its
\* connection ends before it was active), and the active flag is raised only
\* by a session that moves from Connecting to Active in the same step: a
\* session that is Closed is never shown as active again.
C14_Lifecycle ==
    [][/\ \A i \in Runs :
            \/ SessionState(runs'[i]) = SessionState(runs[i])
            \/ <<SessionState(runs[i]), SessionState(runs'[i])>> \in
                  {<<"Connecting", "Active">>, <<"Active", "Closed">>,
                   <<"Connecting", "Closed">>}
       /\ (isActive' /\ ~isActive) =>
             \E i \in Runs : /\ SessionState(runs[i]) = "Connecting"
                             /\ SessionState(runs'[i]) = "Active"]_vars

\* The connection of run i has been opened (it may have ended since).
Opened(i) == runs[i].conn \in {"open", "closing", "closed"}

\* C15: a run has its capture pipeline attached, or has encoded a frame
\* (whether sent already or waiting on sessionPromise), only if onopen has run
\* for its connection.
C15_CaptureAfterOpen ==
    \A i \in Runs :
        (runs[i].capture \/ runs[i].queued + runs[i].sent > 0) => Opened(i)

\* A frame was captured and encoded on an open connection.
C15_Witness ==
    \E i \in Runs :
        /\ runs[i].capture
        /\ runs[i].conn = "open"
        /\ runs[i].queued + runs[i].sent > 0

\* C16: once onerror has run for a session, the session is Closed and is not
\* the one shown as active, its microphone stream and capture processor are
\* released, and no buffer of its output context is pending, playing or
\* scheduled.
C16_ErrorCloses ==
    \A i \in Runs :
        runs[i].erred =>
            /\ SessionState(runs[i]) = "Closed"
            /\ ~(isActive /\ sessionRef = i)
            /\ ~runs[i].stream
            /\ ~runs[i].capture
            /\ \A h \in DOMAIN handles :
                  handles[h].ctx = i => (h \notin sourcesRef /\ ~Audible(h))

\* The call of startAssistant of run i ended in its catch because
\* getUserMedia rejected: the credential was there and no stream was obtained.
DeniedMedia(i) == apiKey /\ runs[i].pc = "failed" /\ ~runs[i].stream

\* C17: a start whose getUserMedia rejected has never called ai.live.connect,
\* has no connection, no capture pipeline and no session stored, and it has
\* not raised the active flag (the flag is up only if another call did so).
C17_DeniedAborts ==
    \A i \in Runs :
        DeniedMedia(i) =>
            /\ runs[i].connects = 0
            /\ runs[i].conn = "none"
            /\ ~runs[i].capture
            /\ sessionRef # i
            /\ isActive => \E j \in Runs \ {i} : runs[j].pc = "done"

\* getUserMedia has rejected.
C17_Witness ==
    \E i \in Runs : DeniedMedia(i)

\* C18: without a credential every call of startAssistant has ended in its
\* catch with nothing done: no output context is stored, no microphone stream
\* was requested or obtained, ai.live.connect was never called, no session is
\* stored and the active flag is down.
C18_NoKeyFailsFast ==
    ~apiKey =>
        /\ audioContextRef = 0
        /\ sessionRef = 0
        /\ ~isActive
        /\ \A i \in Runs :
              /\ runs[i].pc = "failed"
              /\ ~runs[i].stream
              /\ ~runs[i].capture
              /\ runs[i].connects = 0
              /\ runs[i].conn = "none"

\* The start button was clicked without a credential.
C18_Witness ==
    ~apiKey /\ Len(runs) > 0

\* The calls of ai.live.connect made by the first n calls of startAssistant.
RECURSIVE ConnectCallsUpTo(_)
ConnectCallsUpTo(n) ==
    IF n = 0 THEN 0 ELSE runs[n].connects + ConnectCallsUpTo(n - 1)

ConnectCalls == ConnectCallsUpTo(Len(runs))

\* C19: ai.live.connect has been called at most as many times as the start
\* button was clicked.
C19_NoRetry ==
    ConnectCalls <= Len(runs)

\* A connection has seen a transport error and has been closed, and there was
\* one call of connect per click.
C19_Witness ==
    /\ ConnectCalls = Len(runs)
    /\ \E i \in Runs : runs[i].erred /\ runs[i].conn = "closed"

\* C20: every decodable chunk that arrives after an undecodable one is started
\* at the time at which it would have been started had no undecodable chunk
\* ever arrived.
C20_DecodeFailureIsolated ==
    (lastStart.id # 0 /\ lastStart.afterBad) => lastStart.when = lastStart.clean

\* C21: decodeAudioData fails exactly when the byte length is not a multiple
\* of 2 * numChannels, and otherwise returns a buffer of
\* byteLength / (2 * numChannels) frames in each channel.
C21_DecodeFailsOnMisaligned ==
    codec.stage \in {"decoded", "failed"} =>
        LET len  == Len(codec.bytes)
            unit == BytesPerSample * codec.nc
        IN  /\ (codec.stage = "failed") <=> (len % unit # 0)
            /\ codec.stage = "decoded" =>
                  /\ codec.frames = len \div unit
                  /\ \A ch \in 1..codec.nc : Len(codec.data[ch]) = len \div unit

\* C22: the bytes that decodeBase64 returns for the text that encodeAudio
\* makes of a byte sequence are that byte sequence.
C22_TextRoundTrip ==
    codec.stage \in {"bytes", "decoded", "failed"} => codec.bytes = codec.sent

\* A byte sequence of more than one group, the last group incomplete, has
\* gone through the text and back.
C22_Witness ==
    /\ codec.stage = "bytes"
    /\ Len(codec.sent) > 3
    /\ Len(codec.sent) % 3 # 0
    /\ Len(codec.text) = 8

\* Sample i of the frame, encoded by encodeAudio and decoded by
\* decodeAudioData as one channel, is within 1 / SampleScale of itself.
WithinOneStep(i) ==
    LET d == codec.samples[i] * SampleScale - codec.data[1][i] * SampleDen
    IN  d <= SampleDen /\ -d <= SampleDen

\* The frame has gone through encodeAudio, decodeBase64 and decodeAudioData
\* with one channel.
FrameDecoded ==
    codec.stage = "decoded" /\ codec.kind = "frame" /\ codec.nc = 1

\* C23 as stated: every sample of [-1.0, 1.0], both ends included, comes back
\* within one quantization step.
C23_RoundTripClosed ==
    FrameDecoded =>
        \A i \in 1..Len(codec.samples) :
            (codec.samples[i] >= -SampleDen /\ codec.samples[i] <= SampleDen)
                => WithinOneStep(i)

\* C23, amended: every sample of [-1.0, 1.0), the upper end excluded, comes
\* back within one quantization step.
C23_RoundTripHalfOpen ==
    FrameDecoded =>
        \A i \in 1..Len(codec.samples) :
            (codec.samples[i] >= -SampleDen /\ codec.samples[i] < SampleDen)
                => WithinOneStep(i)

\* A frame holding -1.0 and the largest sample below 1.0 has come back.
C23_Witness ==
    /\ FrameDecoded
    /\ \E i \in 1..Len(codec.samples) : codec.samples[i] = -SampleDen
    /\ \E i \in 1..Len(codec.samples) : codec.samples[i] = SampleDen - 1

\* C26: the bytes that encodeAudio makes of a frame are two per sample, in
\* the order of the samples, and the 16-bit value w they hold for a sample is
\* the sample times 32768, truncated toward zero, modulo 2^16: a sample of 1.0
\* is stored as -32768 (w = 2^15) and not as 32767.
C26_NoClipping ==
    (codec.stage = "pcm" /\ codec.kind = "frame") =>
        /\ Len(codec.bytes) = 2 * Len(codec.samples)
        /\ \A i \in 1..Len(codec.samples) :
              LET t == TruncToZero(codec.samples[i] * SampleScale, SampleDen)
                  w == codec.bytes[2 * i - 1] + ByteMod * codec.bytes[2 * i]
              IN  /\ codec.bytes[2 * i - 1] \in 0..(ByteMod - 1)
                  /\ codec.bytes[2 * i] \in 0..(ByteMod - 1)
                  /\ (w - t) % Int16Mod = 0
                  /\ codec.samples[i] = SampleDen => w = Int16Mod \div 2

\* A frame holding 1.0 and a sample beyond the range has been encoded.
C26_Witness ==
    /\ codec.stage = "pcm"
    /\ codec.kind = "frame"
    /\ \E i \in 1..Len(codec.samples) : codec.samples[i] = SampleDen
    /\ \E i \in 1..Len(codec.samples) : codec.samples[i] > SampleDen

\* C24: the transcript never holds more than 5 entries.
C24_LogCapped ==
    Len(transcript) <= 5

\* More fragments than the log holds have been appended, and the log is full.
C24_Witness ==
    /\ Len(transcript) = 5
    /\ fragCount > 5

\* The last n entries of a log.
LastEntries(log, n) ==
    [k \in 1..(IF Len(log) < n THEN Len(log) ELSE n) |->
        log[Len(log) - (IF Len(log) < n THEN Len(log) ELSE n) + k]]

\* The log that a message leaves when each of its fragments (the output
\* transcription, then the input transcription) is appended to log t as an
\* entry of its own and the last 5 entries are kept; n fragments were appended
\* before.
Logged(t, out, inp, n) ==
    LET genie == IF out THEN <<<<"Genie", n + 1>>>> ELSE <<>>
        you   == IF inp THEN <<<<"You", n + Len(genie) + 1>>>> ELSE <<>>
    IN  LastEntries(t \o genie \o you, 5)

\* C25: whenever the handling of a message ends, be it the continuation of a
\* message with audio or a message without audio handled at once, the log is
\* the last 5 entries of the previous log followed by one entry for each
\* fragment of the message.
C25_AppendOldestOut ==
    [][/\ (inflight # <<>> /\ inflight' = Tail(inflight)) =>
             transcript' = Logged(transcript, Head(inflight).out,
                                  Head(inflight).inp, fragCount)
       /\ (msgCount' = msgCount + 1 /\ inflight' = inflight) =>
             \E out \in BOOLEAN, inp \in BOOLEAN :
                 /\ (IF out THEN 1 ELSE 0) + (IF inp THEN 1 ELSE 0)
                       = left.frags - left'.frags
                 /\ transcript' = Logged(transcript, out, inp, fragCount)]_vars

\* C30: when the continuation of a message whose audio could not be decoded
\* ends, the log has an entry for each fragment of the message, and if the
\* message carried the interrupted flag every pending source was stopped, the
\* pending set is empty and the cursor is 0.
C30_FailureKeepsRest ==
    [][(inflight # <<>> /\ inflight' = Tail(inflight)
                        /\ Head(inflight).frames < 0) =>
          /\ transcript' = Logged(transcript, Head(inflight).out,
                                  Head(inflight).inp, fragCount)
          /\ Head(inflight).int =>
                /\ sourcesRef' = {}
                /\ nextStartTimeRef' = 0
                /\ \A h \in sourcesRef :
                      h \in DOMAIN handles' => handles'[h].stopped]_vars

\* C29: whenever the component is shown as active, a session is stored and
\* its connection is open.
C29_ActiveMeansOpen ==
    isActive => (sessionRef # 0 /\ runs[sessionRef].conn = "open")

\* C27: while a session that was started after the earlier ones were over
\* has had no audio yet, the cursor is not ahead of the clock of its output
\* context, so that its first chunk is started at the output time of its
\* arrival, and the pending set holds no source of an earlier output context.
C27_NoLeakAcrossSessions ==
    \A i \in Runs :
        (runs[i].sequel /\ audioContextRef = i /\ Live(i) /\ ~runs[i].heard) =>
            /\ nextStartTimeRef <= CurrentTime(i)
            /\ \A h \in sourcesRef :
                  h \in DOMAIN handles => handles[h].ctx >= i

\* C28: at most one session is connecting or active at any time.
C28_OneLiveSession ==
    Cardinality({i \in Runs : Live(i)}) <= 1

====
